---- MODULE Spec2Model ----
(***************************************************************************)
(* The homework pipeline of src/main.py: the record store (one JSON        *)
(* document per record), the image store, the upload and regrade request   *)
(* handlers, the background task dispatcher and process_homework.          *)
(*                                                                         *)
(* A JSON document is a function from field names to values, exactly as a  *)
(* Python dict: a key that was never written is not in its DOMAIN.  A      *)
(* store (records, config, imageFiles) is a function whose DOMAIN is the   *)
(* set of files that exist.                                                *)
(*                                                                         *)
(* Request handlers are "async def", so they run one at a time on the      *)
(* event loop: each is one action.  process_homework runs on worker        *)
(* threads, one action per store write or external call.  The background   *)
(* tasks of one response run one after the other, those of different       *)
(* responses run concurrently.                                             *)
(***************************************************************************)
EXTENDS Integers, Sequences, FiniteSets, TLC

VARIABLES
    env,         \* Config: the process environment, fixed at startup
    now,         \* the wall clock, in milliseconds
    config,      \* plan name -> config.json document
    records,     \* <<plan name, record id>> -> record document
    imageFiles,  \* <<plan name, image path>> -> bytes
    batches,     \* dispatcher slot -> the tasks of one response still to run
    running,     \* dispatcher slot -> the process_homework frame being run
    served       \* the number of uploads and regrade requests accepted so far

vars == <<env, now, config, records, imageFiles, batches, running, served>>

---------------------------------------------------------------------------
(* Bounds of the model *)

\* the clock runs over 1..MaxTime milliseconds
MaxTime == 2
\* responses whose background tasks are pending or running at the same time
MaxBatches == 2
\* length of an explicit record id list in a regrade request
MaxListLen == 2
\* uploads and regrade requests accepted in one run
MaxRequests == 2

(* Program constants *)
MAX_IMAGE_SIZE == 10485760
MAX_IMAGES_PER_UPLOAD == 10
ALLOWED_EXTENSIONS == {".jpg", ".jpeg", ".png", ".webp"}

---------------------------------------------------------------------------
(* Python helpers *)

\* dict[k] = v
Put(d, k, v) == [f \in (DOMAIN d) \cup {k} |-> IF f = k THEN v ELSE d[f]]

\* dict.get(k, default)
Get(d, k, default) == IF k \in DOMAIN d THEN d[k] ELSE default

\* a file removed from a store
Remove(store, k) == [f \in (DOMAIN store) \ {k} |-> store[f]]

\* str.strip() on a string given as a sequence of characters
RECURSIVE LStrip(_)
LStrip(s) == IF s # <<>> /\ Head(s) = " " THEN LStrip(Tail(s)) ELSE s

RECURSIVE RStrip(_)
RStrip(s) ==
    IF s # <<>> /\ s[Len(s)] = " " THEN RStrip(SubSeq(s, 1, Len(s) - 1)) ELSE s

Strip(s) == RStrip(LStrip(s))

\* str.lower() on the file suffixes the model uploads
Lower(ext) == IF ext = ".JPG" THEN ".jpg" ELSE ext

Range(s) == {s[i] : i \in DOMAIN s}

\* the orders in which a directory listing can return a set of names
Listings(S) ==
    {s \in [1..Cardinality(S) -> S] : \A i, j \in 1..Cardinality(S) : s[i] = s[j] => i = j}

---------------------------------------------------------------------------
(* Inputs of the model *)

PlanNames == {<<"p">>, <<"q">>}
PlanNameInputs ==
    {<<"p">>, <<" ", "p">>, <<"q">>, <<" ", "q", " ">>, <<" ">>, <<>>,
     <<"a", "/", "b">>, <<"a", "\\", "b">>}
Prompts == {"q1", "q2"}
Descriptions == {"d1", "d2"}
Students == {<<" ", "a", " ">>, <<" ">>}
RecordIds == 0..MaxTime
GradeTexts == {"", "A", "B"}
OcrTexts == {<<"x">>, <<" ">>}

Image(ext, size, data) == [suffix |-> ext, size |-> size, data |-> data]

GoodImage(data) == Image(".jpg", 1024, data)

\* the image lists of the upload requests
UploadImages ==
    { <<Image(".JPG", MAX_IMAGE_SIZE, "d1")>>,
      <<GoodImage("d2")>>,
      <<Image(".gif", 1024, "d1")>>,
      <<Image(".jpg", MAX_IMAGE_SIZE + 1, "d1")>>,
      [i \in 1..(MAX_IMAGES_PER_UPLOAD + 1) |-> GoodImage("d1")] }

\* RegradeRequest bodies: record_ids is None (the field is absent) or a list
RegradeRequests ==
    { [f \in {} |-> f] } \cup
    { [record_ids |-> l] : l \in UNION {[1..n -> RecordIds] : n \in 0..MaxListLen} }

\* an upload the handler accepts
Accepted(plan_name, student, images) ==
    /\ plan_name \in DOMAIN config
    /\ Strip(student) # <<>>
    /\ Len(images) <= MAX_IMAGES_PER_UPLOAD
    /\ \A i \in DOMAIN images :
         /\ Lower(images[i].suffix) \in ALLOWED_EXTENSIONS
         /\ images[i].size <= MAX_IMAGE_SIZE

---------------------------------------------------------------------------
(* PathHelper *)

get_record_path(plan_name, record_id) == <<plan_name, record_id>>

get_config_path(plan_name) == plan_name

\* plan_dir / image_rel_path
image_path(plan_name, image_rel_path) == <<plan_name, image_rel_path>>

\* f"images/{record_id}_{idx}{file_ext}"
image_rel(record_id, idx, file_ext) == <<record_id, idx, file_ext>>

\* the records directory of a plan is made by create_plan before the
\* configuration is written
records_dir_exists(plan_name) == get_config_path(plan_name) \in DOMAIN config

\* records_dir.glob("*.json") stems
record_stems(plan_name) == {k[2] : k \in {x \in DOMAIN records : x[1] = plan_name}}

---------------------------------------------------------------------------
(* Dispatcher slots *)

Slots == 1..MaxBatches

SlotFree(b) == batches[b] = <<>> /\ b \notin DOMAIN running

FreeSlots == {b \in Slots : SlotFree(b)}

NextSlot == CHOOSE b \in FreeSlots : \A c \in FreeSlots : b <= c

---------------------------------------------------------------------------
(* Store *)

save_json(store, path, data) == Put(store, path, data)

exists(store, path) == path \in DOMAIN store

load_json(store, path) == store[path]

---------------------------------------------------------------------------
(* The data directory outlives the process.  At startup it holds the plan  *)
(* "p" and one record of it, uploaded at time 0 and graded once: the       *)
(* document process_homework leaves after a successful first run.          *)

StoredRecord ==
    [id |-> 0, student |-> <<"a">>, images |-> <<image_rel(0, 1, ".jpg")>>,
     status |-> "done", result |-> "A", regrade_count |-> 0,
     ocr_text |-> << [label |-> 1], [text |-> <<"x">>] >>,
     created_at |-> 0, updated_at |-> 0]

Init ==
    /\ env \in [ocr_adapter : {"ok", "error"}, DEEPSEEK_API_KEY : {"", "sk"}]
    /\ now = 1
    /\ config = [k \in {<<"p">>} |->
                   [plan_name |-> k, description |-> "d1", prompt |-> "q1",
                    created_at |-> 0]]
    /\ records = [k \in {get_record_path(<<"p">>, 0)} |-> StoredRecord]
    /\ imageFiles = [k \in {image_path(<<"p">>, image_rel(0, 1, ".jpg"))} |-> "d0"]
    /\ batches = [b \in Slots |-> <<>>]
    /\ running = [b \in {} |-> b]
    /\ served = 0

\* time passes
Tick ==
    /\ now < MaxTime
    /\ now' = now + 1
    /\ UNCHANGED <<env, config, records, imageFiles, batches, running, served>>

---------------------------------------------------------------------------
(* POST /plans *)

\* the handler without the test for an existing configuration
create_plan_replacing(name, description, prompt) ==
    LET plan_name == Strip(name)
        config_path == get_config_path(plan_name)
        config_data == [plan_name |-> plan_name, description |-> description,
                        prompt |-> prompt, created_at |-> now]
    IN  /\ IF plan_name = <<>>
             THEN UNCHANGED config
           ELSE IF "/" \in Range(plan_name) \/ "\\" \in Range(plan_name)
             THEN UNCHANGED config
           ELSE config' = save_json(config, config_path, config_data)
        /\ UNCHANGED <<env, now, records, imageFiles, batches, running, served>>

create_plan(name, description, prompt) ==
    LET plan_name == Strip(name)
        config_path == get_config_path(plan_name)
        config_data == [plan_name |-> plan_name, description |-> description,
                        prompt |-> prompt, created_at |-> now]
    IN  /\ IF plan_name = <<>>
             THEN UNCHANGED config                       \* 400
           ELSE IF "/" \in Range(plan_name) \/ "\\" \in Range(plan_name)
             THEN UNCHANGED config                       \* 400
           ELSE IF exists(config, config_path)
             THEN UNCHANGED config                       \* 400
           ELSE config' = save_json(config, config_path, config_data)
        /\ UNCHANGED <<env, now, records, imageFiles, batches, running, served>>

---------------------------------------------------------------------------
(* GET /plans/{plan_name}: the response *)

Statuses == {"pending", "processing", "done", "failed"}

get_plan(plan_name) ==
    LET config_path == get_config_path(plan_name)
        mine == {k \in DOMAIN records : k[1] = plan_name}
        stats == [x \in Statuses \cup {"total"} |->
                    IF x = "total" THEN Cardinality(mine)
                    ELSE Cardinality({k \in mine : records[k].status = x})]
    IN  IF ~exists(config, config_path)
          THEN [status_code |-> 404]
          ELSE [status_code |-> 200, plan |-> load_json(config, config_path),
                stats |-> stats]

(* PUT /plans/{plan_name}/prompt *)

update_prompt(plan_name, prompt) ==
    LET config_path == get_config_path(plan_name)
    IN  /\ IF ~exists(config, config_path)
             THEN UNCHANGED config                       \* 404
             ELSE config' = save_json(config, config_path,
                      Put(Put(load_json(config, config_path), "prompt", prompt),
                          "updated_at", now))
        /\ UNCHANGED <<env, now, records, imageFiles, batches, running, served>>

---------------------------------------------------------------------------
(* POST /upload/{plan_name} *)

BadImage(image) ==
    \/ Lower(image.suffix) \notin ALLOWED_EXTENSIONS
    \/ image.size > MAX_IMAGE_SIZE

\* the position of the first image the loop rejects, 0 when it rejects none
FirstBad(images) ==
    IF \E i \in DOMAIN images : BadImage(images[i])
      THEN CHOOSE i \in DOMAIN images :
             BadImage(images[i]) /\ \A j \in 1..(i - 1) : ~BadImage(images[j])
      ELSE 0

NewRecord(record_id, student, saved_images) ==
    [id |-> record_id, student |-> Strip(student), images |-> saved_images,
     status |-> "pending", result |-> "", regrade_count |-> 0,
     created_at |-> now, updated_at |-> now]

upload_homework(plan_name, student, images) ==
    /\ FreeSlots # {}
    /\ served < MaxRequests
    /\ IF ~exists(config, get_config_path(plan_name))
         THEN UNCHANGED <<records, imageFiles, batches, served>> \* 404
       ELSE IF Strip(student) = <<>>
         THEN UNCHANGED <<records, imageFiles, batches, served>> \* 400
       ELSE IF Len(images) > MAX_IMAGES_PER_UPLOAD
         THEN UNCHANGED <<records, imageFiles, batches, served>> \* 400
       ELSE
         LET record_id == now
             bad == FirstBad(images)
             n == IF bad = 0 THEN Len(images) ELSE bad - 1
             saved_images ==
                 [i \in 1..n |-> image_rel(record_id, i, Lower(images[i].suffix))]
             written == {image_path(plan_name, saved_images[i]) : i \in 1..n}
             data(path) == images[path[2][2]].data
         IN  /\ imageFiles' = [path \in (DOMAIN imageFiles) \cup written |->
                                 IF path \in written THEN data(path)
                                 ELSE imageFiles[path]]
             /\ IF bad # 0
                  THEN UNCHANGED <<records, batches, served>>  \* 400
                  ELSE /\ records' = save_json(records,
                                         get_record_path(plan_name, record_id),
                                         NewRecord(record_id, student, saved_images))
                       /\ batches' = [batches EXCEPT
                                        ![NextSlot] = << <<plan_name, record_id>> >>]
                       /\ served' = served + 1
    /\ UNCHANGED <<env, now, config, running>>

---------------------------------------------------------------------------
(* process_homework: one background invocation, run in dispatcher slot b *)

\* f"【图片 {idx}】\n{text}": the label of the image's position, then the text
Section(idx, text) == << [label |-> idx], [text |-> text] >>

\* the text recorded for an image whose OCR call raised
RecognitionFailed == <<"(", "f", "a", "i", "l", "e", "d", ")">>

\* a join that puts the sections in the reverse order
RECURSIVE JoinNewestFirst(_)
JoinNewestFirst(texts) ==
    IF texts = <<>> THEN <<>>
    ELSE IF Len(texts) = 1 THEN Head(texts)
    ELSE JoinNewestFirst(Tail(texts)) \o << [sep |-> "\n\n"] >> \o Head(texts)

\* "\n\n".join(recognized_texts)
RECURSIVE Join(_)
Join(texts) ==
    IF texts = <<>> THEN <<>>
    ELSE IF Len(texts) = 1 THEN Head(texts)
    ELSE Head(texts) \o << [sep |-> "\n\n"] >> \o Join(Tail(texts))

\* the task leaves the dispatcher: the next task of the same response may start
TaskDone(b) ==
    /\ running' = Remove(running, b)
    /\ batches' = [batches EXCEPT ![b] = Tail(@)]

\* the except branch without the message
MarkFailedWithoutMessage(record, message) ==
    Put(Put(record, "status", "failed"), "updated_at", now)

\* the except branch that stores the message and leaves the status as it is
MarkFailedKeepingStatus(record, message) ==
    Put(Put(record, "error", message), "updated_at", now)

\* the except branch: mark the in-memory record failed and write it back
MarkFailed(record, message) ==
    Put(Put(Put(record, "status", "failed"), "error", message), "updated_at", now)

Fail(b, message) ==
    LET f == running[b]
    IN  /\ records' = save_json(records,
                                get_record_path(f.plan_name, f.record_id),
                                MarkFailed(f.record, message))
        /\ TaskDone(b)

\* a first write that stores the time and leaves the status as it is
MarkTouched(record) == Put(record, "updated_at", now)

\* load the record, mark it processing, write it back
MarkProcessing(record) == Put(Put(record, "status", "processing"), "updated_at", now)

Begin(b) ==
    /\ b \notin DOMAIN running
    /\ batches[b] # <<>>
    /\ LET plan_name == Head(batches[b])[1]
           record_id == Head(batches[b])[2]
           record_path == get_record_path(plan_name, record_id)
       IN  IF ~exists(records, record_path)
             \* load_json raises; the handler finds no record to mark
             THEN /\ batches' = [batches EXCEPT ![b] = Tail(@)]
                  /\ UNCHANGED <<records, running>>
             ELSE LET record == MarkProcessing(load_json(records, record_path))
                  IN  /\ records' = save_json(records, record_path, record)
                      /\ running' = Put(running, b,
                             [plan_name |-> plan_name, record_id |-> record_id,
                              pc |-> "config", record |-> record, idx |-> 1,
                              recognized_texts |-> <<>>])
                      /\ UNCHANGED batches
    /\ UNCHANGED <<env, now, config, imageFiles, served>>

\* the steps after the loop without the test of the credential
AfterLoopWithoutCredentialTest(b, f) ==
    IF f.recognized_texts = <<>>
      THEN Fail(b, "OCR_NO_TEXT")
    ELSE /\ running' = [running EXCEPT ![b] =
               Put(Put(f, "all_text", Join(f.recognized_texts)), "pc", "grade")]
         /\ UNCHANGED <<records, batches>>

\* after the loop, up to the grading request: no text at all, or no
\* credential, ends the invocation
AfterLoop(b, f) ==
    IF f.recognized_texts = <<>>
      THEN Fail(b, "OCR_NO_TEXT")
    ELSE IF env.DEEPSEEK_API_KEY = ""
      THEN Fail(b, "DEEPSEEK_API_KEY_MISSING")
    ELSE /\ running' = [running EXCEPT ![b] =
               Put(Put(f, "all_text", Join(f.recognized_texts)), "pc", "grade")]
         /\ UNCHANGED <<records, batches>>

\* the loop goes on with the next image, or is over
Continue(b, f) ==
    IF f.idx <= Len(f.record.images)
      THEN /\ running' = [running EXCEPT ![b] = Put(f, "pc", "ocr")]
           /\ UNCHANGED <<records, batches>>
      ELSE AfterLoop(b, f)

\* load the plan's prompt and get the OCR adapter
LoadConfig(b) ==
    /\ b \in DOMAIN running
    /\ running[b].pc = "config"
    /\ LET f == running[b]
           config_path == get_config_path(f.plan_name)
       IN  IF ~exists(config, config_path)
             THEN Fail(b, "FileNotFoundError")
           ELSE IF env.ocr_adapter # "ok"
             THEN Fail(b, "ValueError")
           ELSE Continue(b, Put(f, "prompt",
                    Get(load_json(config, config_path), "prompt", "default")))
    /\ UNCHANGED <<env, now, config, imageFiles, served>>

\* what ocr_adapter.recognize answers for one image
OcrAnswers == {[text |-> t] : t \in OcrTexts} \cup {[raised |-> "OCRError"]}

\* a pass of the loop that records nothing for an image whose OCR call raised
RecognizedDroppingFailures(texts, idx, answer) ==
    IF "raised" \in DOMAIN answer THEN texts
    ELSE IF Strip(answer.text) # <<>> THEN Append(texts, Section(idx, answer.text))
    ELSE texts

\* one pass of the loop over record["images"]
Recognized(texts, idx, answer) ==
    IF "raised" \in DOMAIN answer THEN Append(texts, Section(idx, RecognitionFailed))
    ELSE IF Strip(answer.text) # <<>> THEN Append(texts, Section(idx, answer.text))
    ELSE texts

\* one pass of the loop: the image at position idx, if its file is there,
\* goes to the OCR adapter, which answers
OcrImage(b, answer) ==
    /\ b \in DOMAIN running
    /\ running[b].pc = "ocr"
    /\ LET f == running[b]
           path == image_path(f.plan_name, f.record.images[f.idx])
           texts == IF exists(imageFiles, path)
                      THEN Recognized(f.recognized_texts, f.idx, answer)
                      ELSE f.recognized_texts
       IN  Continue(b, Put(Put(f, "recognized_texts", texts), "idx", f.idx + 1))
    /\ UNCHANGED <<env, now, config, imageFiles, served>>

\* the answers of the grading model: a completion, another status, or no
\* answer within the timeout
GradeAnswers ==
    {[status_code |-> 200, content |-> c] : c \in GradeTexts} \cup
    {[status_code |-> 500], [raised |-> "RequestException"]}

MarkDone(record, all_text, correction) ==
    Put(Put(Put(Put(record, "status", "done"), "ocr_text", all_text),
            "result", correction), "updated_at", now)

GradeCall(b, answer) ==
    /\ b \in DOMAIN running
    /\ running[b].pc = "grade"
    /\ LET f == running[b]
       IN  IF "raised" \in DOMAIN answer
             THEN Fail(b, "REQUEST_EXCEPTION")
           ELSE IF answer.status_code = 200
             THEN IF "content" \in DOMAIN answer
                    THEN /\ records' = save_json(records,
                                get_record_path(f.plan_name, f.record_id),
                                MarkDone(f.record, f.all_text, answer.content))
                         /\ TaskDone(b)
                    ELSE Fail(b, "KeyError")
           ELSE Fail(b, "DEEPSEEK_API_FAILED")
    /\ UNCHANGED <<env, now, config, imageFiles, served>>

---------------------------------------------------------------------------
(* POST /plans/{plan_name}/regrade *)

\* "if request.record_ids": None and the empty list both mean every record,
\* in the order the directory listing gives them
Targets(plan_name, request) ==
    IF "record_ids" \in DOMAIN request /\ request.record_ids # <<>>
      THEN {request.record_ids}
      ELSE Listings(record_stems(plan_name))

\* the loop body with a history that is written once and then kept
RequeuedKeepingHistory(record) ==
    LET kept == IF Get(record, "result", "") # "" /\ "previous_result" \notin DOMAIN record
                  THEN Put(record, "previous_result", record.result)
                  ELSE record
    IN  Put(Put(Put(Put(kept, "status", "pending"), "result", ""),
                "regrade_count", Get(record, "regrade_count", 0) + 1),
            "updated_at", now)

\* the body of the loop for one stored record
Requeued(record) ==
    LET kept == IF Get(record, "result", "") # ""
                  THEN Put(record, "previous_result", record.result)
                  ELSE record
    IN  Put(Put(Put(Put(kept, "status", "pending"), "result", ""),
                "regrade_count", Get(record, "regrade_count", 0) + 1),
            "updated_at", now)

\* the loop over record_ids: the store, the count and the tasks it leaves
RECURSIVE RegradeLoop(_, _, _)
RegradeLoop(plan_name, record_ids, acc) ==
    IF record_ids = <<>> THEN acc
    ELSE LET record_id == Head(record_ids)
             record_path == get_record_path(plan_name, record_id)
         IN  IF exists(acc.store, record_path)
               THEN RegradeLoop(plan_name, Tail(record_ids),
                        [store |-> save_json(acc.store, record_path,
                                       Requeued(load_json(acc.store, record_path))),
                         count |-> acc.count + 1,
                         tasks |-> Append(acc.tasks, <<plan_name, record_id>>)])
               ELSE RegradeLoop(plan_name, Tail(record_ids), acc)

Regraded(plan_name, record_ids) ==
    RegradeLoop(plan_name, record_ids, [store |-> records, count |-> 0, tasks |-> <<>>])

\* the handler, for the listing order record_ids of its targets
regrade_records(plan_name, request, record_ids) ==
    /\ FreeSlots # {}
    /\ served < MaxRequests
    /\ record_ids \in Targets(plan_name, request)
    /\ IF ~exists(config, get_config_path(plan_name))
         THEN UNCHANGED <<records, batches, served>>           \* 404
       ELSE IF ~records_dir_exists(plan_name)
         THEN UNCHANGED <<records, batches, served>>           \* count 0
       ELSE LET out == Regraded(plan_name, record_ids)
            IN  /\ records' = out.store
                \* the response {"count": out.count} is sent; the tasks added
                \* then run in the order they were added
                /\ batches' = IF out.tasks = <<>> THEN batches
                              ELSE [batches EXCEPT ![NextSlot] = out.tasks]
                /\ served' = IF out.tasks = <<>> THEN served ELSE served + 1
    /\ UNCHANGED <<env, now, config, imageFiles, running>>

---------------------------------------------------------------------------
(* GET /records/{plan_name}/{record_id}: the response *)

get_record(plan_name, record_id) ==
    LET record_path == get_record_path(plan_name, record_id)
    IN  IF ~exists(records, record_path)
          THEN [status_code |-> 404]
          ELSE [status_code |-> 200, record |-> load_json(records, record_path)]

(* DELETE /records/{plan_name}/{record_id} *)

\* an unlink that removes nothing
UnlinkedNone(store, paths) == store

\* unlink of every path of paths that exists
Unlinked(store, paths) == [f \in (DOMAIN store) \ paths |-> store[f]]

delete_record(plan_name, record_id) ==
    LET record_path == get_record_path(plan_name, record_id)
    IN  /\ IF ~exists(config, get_config_path(plan_name))
             THEN UNCHANGED <<records, imageFiles>>          \* 404
           ELSE IF ~exists(records, record_path)
             THEN UNCHANGED <<records, imageFiles>>          \* 404
           ELSE LET record == load_json(records, record_path)
                    images == Get(record, "images", <<>>)
                    paths == {image_path(plan_name, images[i]) : i \in DOMAIN images}
                IN  /\ imageFiles' = Unlinked(imageFiles, paths)
                    /\ records' = Remove(records, record_path)
        /\ UNCHANGED <<env, now, config, batches, running, served>>

---------------------------------------------------------------------------
Next ==
    \/ Tick
    \/ \E p \in PlanNames, s \in Students, images \in UploadImages :
         upload_homework(p, s, images)
    \/ \E b \in Slots : Begin(b)
    \/ \E b \in Slots : LoadConfig(b)
    \/ \E b \in Slots, answer \in OcrAnswers : OcrImage(b, answer)
    \/ \E b \in Slots, answer \in GradeAnswers : GradeCall(b, answer)
    \/ \E p \in PlanNames, request \in RegradeRequests :
         \E record_ids \in Targets(p, request) : regrade_records(p, request, record_ids)

Spec == Init /\ [][Next]_vars

---------------------------------------------------------------------------
(* Startup: Config.init, run by startup_event before any request is served *)

Providers == {"tencent", "baidu", "ali", "bogus"}

SupportedProviders == {"tencent", "baidu", "ali"}

\* Config._create_ocr_adapter: the adapter, or the ValueError it raises
\* for an unknown provider or for a provider without its credentials
create_ocr_adapter(provider, credentials) ==
    IF provider \in SupportedProviders /\ credentials THEN "ok" ELSE "error"

\* the process before startup_event: the environment is read, the data
\* directory is as the last run left it
InitStartup ==
    /\ env \in [phase : {"boot"}, OCR_PROVIDER : Providers, credentials : BOOLEAN,
                DEEPSEEK_API_KEY : {"", "sk"}]
    /\ now = 1
    /\ config = [k \in {<<"p">>} |->
                   [plan_name |-> k, description |-> "d1", prompt |-> "q1",
                    created_at |-> 0]]
    /\ records = [k \in {get_record_path(<<"p">>, 0)} |-> StoredRecord]
    /\ imageFiles = [k \in {image_path(<<"p">>, image_rel(0, 1, ".jpg"))} |-> "d0"]
    /\ batches = [b \in Slots |-> <<>>]
    /\ running = [b \in {} |-> b]
    /\ served = 0

\* Config.init: mkdir of the data directory succeeds or raises; an
\* exception of _create_ocr_adapter is caught and printed
Config_init(mkdir_ok) ==
    /\ env.phase = "boot"
    /\ env' = IF ~mkdir_ok
                THEN [env EXCEPT !.phase = "failed"]
                ELSE Put([env EXCEPT !.phase = "serving"], "ocr_adapter",
                         create_ocr_adapter(env.OCR_PROVIDER, env.credentials))
    /\ UNCHANGED <<now, config, records, imageFiles, batches, running, served>>

\* uploads and their invocations
NextPipeline ==
    \/ Tick
    \/ \E p \in PlanNames, s \in Students, images \in UploadImages :
         upload_homework(p, s, images)
    \/ \E b \in Slots : Begin(b)
    \/ \E b \in Slots : LoadConfig(b)
    \/ \E b \in Slots, answer \in OcrAnswers : OcrImage(b, answer)
    \/ \E b \in Slots, answer \in GradeAnswers : GradeCall(b, answer)

NextStartup ==
    \/ \E mkdir_ok \in BOOLEAN : Config_init(mkdir_ok)
    \/ env.phase = "serving" /\ NextPipeline

SpecStartup == InitStartup /\ [][NextStartup]_vars

\* uploads, their invocations and deletions
NextDelete ==
    \/ NextPipeline
    \/ \E p \in PlanNames, record_id \in RecordIds : delete_record(p, record_id)

SpecDelete == Init /\ [][NextDelete]_vars

\* uploads of one and of two images, and OCR answers that tell the images
\* apart
PageUploads == { <<GoodImage("d1")>>, <<GoodImage("d1"), GoodImage("d2")>> }

PageAnswers ==
    {[text |-> t] : t \in {<<"x">>, <<"y">>, <<" ">>}} \cup {[raised |-> "OCRError"]}

NextPages ==
    \/ Tick
    \/ \E p \in PlanNames, s \in Students, images \in PageUploads :
         upload_homework(p, s, images)
    \/ \E b \in Slots : Begin(b)
    \/ \E b \in Slots : LoadConfig(b)
    \/ \E b \in Slots, answer \in PageAnswers : OcrImage(b, answer)
    \/ \E b \in Slots, answer \in GradeAnswers : GradeCall(b, answer)

SpecPages == Init /\ [][NextPages]_vars

\* uploads whose files are all accepted, and one whose second file has an
\* extension outside ALLOWED_EXTENSIONS, with deletions
MixedUploads ==
    { <<GoodImage("d1")>>,
      <<GoodImage("d1"), Image(".gif", 1024, "d2")>> }

NextImages ==
    \/ Tick
    \/ \E p \in PlanNames, s \in Students, images \in MixedUploads :
         upload_homework(p, s, images)
    \/ \E p \in PlanNames, record_id \in RecordIds : delete_record(p, record_id)
    \/ \E b \in Slots : Begin(b)
    \/ \E b \in Slots : LoadConfig(b)
    \/ \E b \in Slots, answer \in OcrAnswers : OcrImage(b, answer)
    \/ \E b \in Slots, answer \in GradeAnswers : GradeCall(b, answer)

SpecImages == Init /\ [][NextImages]_vars

\* the requests and answers of the runs followed to their end: an upload
\* of one image, a regrade of every record, a deletion, and for each
\* external call an answer and a failure
LiveRequests == { [f \in {} |-> f] }

LiveOcrAnswers == {[text |-> <<"x">>], [raised |-> "OCRError"]}

LiveGradeAnswers == {[status_code |-> 200, content |-> "B"], [status_code |-> 500]}

\* every started task is run by a worker thread, and every external call
\* returns or times out: each step of an invocation that can be taken is
\* taken
Fairness ==
    \A b \in Slots :
      /\ WF_vars(Begin(b))
      /\ WF_vars(LoadConfig(b))
      /\ WF_vars(\E answer \in LiveOcrAnswers : OcrImage(b, answer))
      /\ WF_vars(\E answer \in LiveGradeAnswers : GradeCall(b, answer))

\* uploads, regrade requests, deletions and the invocations they start
NextLive ==
    \/ Tick
    \/ upload_homework(<<"p">>, <<"a">>, <<GoodImage("d1")>>)
    \/ \E request \in LiveRequests :
         \E record_ids \in Targets(<<"p">>, request) :
           regrade_records(<<"p">>, request, record_ids)
    \/ \E record_id \in RecordIds : delete_record(<<"p">>, record_id)
    \/ \E b \in Slots : Begin(b)
    \/ \E b \in Slots : LoadConfig(b)
    \/ \E b \in Slots, answer \in LiveOcrAnswers : OcrImage(b, answer)
    \/ \E b \in Slots, answer \in LiveGradeAnswers : GradeCall(b, answer)

SpecLive == Init /\ [][NextLive]_vars /\ Fairness

\* the plan handlers alone
NextPlans ==
    \/ Tick
    \/ \E name \in PlanNameInputs, d \in Descriptions, q \in Prompts :
         create_plan(name, d, q)
    \/ \E p \in PlanNames, q \in Prompts : update_prompt(p, q)

SpecPlans == Init /\ [][NextPlans]_vars

---------------------------------------------------------------------------
(* The steps, as the properties below name them *)

IsUpload(plan_name, student, images) == upload_homework(plan_name, student, images)

IsRegrade ==
    \E p \in PlanNames, request \in RegradeRequests :
      \E record_ids \in Targets(p, request) : regrade_records(p, request, record_ids)

\* the invocation in slot b ends in this step
Ends(b) == b \in DOMAIN running /\ b \notin DOMAIN running'

FramePath(b) == get_record_path(running[b].plan_name, running[b].record_id)

\* the tasks this step hands to the dispatcher
Enqueued == IF batches' = batches THEN <<>> ELSE batches'[NextSlot]

Occurrences(seq, x) == Cardinality({i \in DOMAIN seq : seq[i] = x})

---------------------------------------------------------------------------
(* C1: over any interleaving of uploads, invocations and regrade requests  *)
(* the stored status of a record changes only pending -> processing,       *)
(* processing -> done, processing -> failed, and done -> pending or        *)
(* failed -> pending, the last two by a regrade request only.              *)
C1_StatusTransitions ==
    [][\A k \in (DOMAIN records) \cap (DOMAIN records') :
         LET old == records[k].status
             new == records'[k].status
         IN  old # new =>
               \/ <<old, new>> \in {<<"pending", "processing">>,
                                    <<"processing", "done">>,
                                    <<"processing", "failed">>}
               \/ /\ <<old, new>> \in {<<"done", "pending">>, <<"failed", "pending">>}
                  /\ IsRegrade]_vars

(* C2: in every stored state of every record, result is non-empty exactly  *)
(* when status is done.                                                    *)
C2_ResultIffDone ==
    \A k \in DOMAIN records :
      (records[k].result # "") <=> (records[k].status = "done")

(* C3: in every stored state of every record, the error field is present   *)
(* exactly when status is failed.                                          *)
C3_ErrorIffFailed ==
    \A k \in DOMAIN records :
      ("error" \in DOMAIN records[k]) <=> (records[k].status = "failed")

\* the OCR call raised for every image of the frame's record
EveryOcrFailed(f) ==
    /\ f.idx > Len(f.record.images)
    /\ Len(f.recognized_texts) = Len(f.record.images)
    /\ \A i \in DOMAIN f.recognized_texts :
         f.recognized_texts[i] = Section(i, RecognitionFailed)

(* C4: an invocation whose OCR call failed for every image of the record   *)
(* ends with the record failed, the error saying that no text was          *)
(* recognized; it does not write done.                                     *)
C4_AllOcrFailedEndsFailed ==
    [][\A b \in Slots :
         (Ends(b) /\ EveryOcrFailed(running[b])) =>
            /\ records'[FramePath(b)].status = "failed"
            /\ records'[FramePath(b)].error = "OCR_NO_TEXT"]_vars

(* C5: when the grading model answers with a non-success status, the       *)
(* invocation ends with the record failed, its result empty and its        *)
(* ocr_text as it was when the invocation loaded the record.               *)
C5_GradingFailureLeavesResultEmpty ==
    [][\A b \in Slots :
         GradeCall(b, [status_code |-> 500]) =>
            /\ records'[FramePath(b)].status = "failed"
            /\ records'[FramePath(b)].result = ""
            /\ Get(records'[FramePath(b)], "ocr_text", <<>>)
                 = Get(running[b].record, "ocr_text", <<>>)]_vars

C7_CountIsRecordsRequeued ==
    [][\A p \in PlanNames, request \in RegradeRequests :
         \A record_ids \in Targets(p, request) :
           (/\ regrade_records(p, request, record_ids)
            /\ "record_ids" \in DOMAIN request
            /\ request.record_ids # <<>>) =>
              LET count == Regraded(p, record_ids).count
                  reset == {k \in DOMAIN records : records'[k] # records[k]}
              IN  /\ DOMAIN records' = DOMAIN records
                  /\ \A k \in reset : records'[k].status = "pending"
                  /\ count = Cardinality(reset)
                  /\ count = Len(Enqueued)]_vars

(* C8: a regrade request that gives a list of record ids re-queues only    *)
(* records whose id is in the list: every other record of the plan keeps   *)
(* its status, result, previous_result and regrade_count and no            *)
(* invocation is enqueued for it.                                          *)
C8_OnlyListedRecords ==
    [][\A p \in PlanNames, request \in RegradeRequests :
         \A record_ids \in Targets(p, request) :
           (/\ regrade_records(p, request, record_ids)
            /\ "record_ids" \in DOMAIN request) =>
              \A k \in DOMAIN records :
                (k[1] = p /\ k[2] \notin Range(request.record_ids)) =>
                   /\ records'[k].status = records[k].status
                   /\ records'[k].result = records[k].result
                   /\ Get(records'[k], "previous_result", "") =
                        Get(records[k], "previous_result", "")
                   /\ records'[k].regrade_count = records[k].regrade_count
                   /\ k \notin Range(Enqueued)]_vars

(* C9: an accepted upload persists exactly one new record, pending, with   *)
(* an empty result and regrade_count 0, and enqueues exactly one           *)
(* invocation, for that record; an upload rejected for a missing plan, a   *)
(* blank student name or too many images persists no record and enqueues   *)
(* nothing.                                                                *)
C9_UploadCreatesOneRecord ==
    [][\A p \in PlanNames, s \in Students, images \in UploadImages :
         IsUpload(p, s, images) =>
           IF Accepted(p, s, images)
             THEN \E k \in (DOMAIN records') \ (DOMAIN records) :
                    /\ DOMAIN records' = (DOMAIN records) \cup {k}
                    /\ \A j \in DOMAIN records : records'[j] = records[j]
                    /\ records'[k].status = "pending"
                    /\ records'[k].result = ""
                    /\ records'[k].regrade_count = 0
                    /\ Enqueued = <<k>>
             ELSE (\/ p \notin DOMAIN config
                   \/ Strip(s) = <<>>
                   \/ Len(images) > MAX_IMAGES_PER_UPLOAD) =>
                      records' = records /\ batches' = batches]_vars

(* C10: two accepted uploads to the same plan never get the same record    *)
(* id: an accepted upload writes a record document and image files that    *)
(* did not exist before it.                                                *)
C10_UploadNeverOverwrites ==
    [][\A p \in PlanNames, s \in Students, images \in UploadImages :
         (IsUpload(p, s, images) /\ Accepted(p, s, images)) =>
            /\ get_record_path(p, now) \notin DOMAIN records
            /\ \A i \in DOMAIN images :
                 image_path(p, image_rel(now, i, Lower(images[i].suffix)))
                   \notin DOMAIN imageFiles]_vars

---------------------------------------------------------------------------
\* the invocations for record k that are queued or running: a running
\* invocation stays at the head of its batch until it returns
Invocations(k) ==
    Cardinality({x \in Slots \X (1..(MaxRequests * (MaxListLen + 1))) :
                   x[2] \in DOMAIN batches[x[1]] /\ batches[x[1]][x[2]] = k})

\* this step is an accepted upload that writes the record document k
IsUploadOf(k) ==
    \E p \in PlanNames, s \in Students, images \in UploadImages :
      /\ IsUpload(p, s, images)
      /\ Accepted(p, s, images)
      /\ k = get_record_path(p, now)

(* C14: one upload call and one regrade call each enqueue at most one      *)
(* invocation per record id, whatever the request body is.                 *)
C14_OneInvocationPerCall ==
    [][\A k \in Range(Enqueued) : Occurrences(Enqueued, k) <= 1]_vars

(* C18: at any time at most one invocation for a given plan and record id  *)
(* is queued or running.                                                   *)
C18_SingleInvocationPerRecord ==
    \A k \in DOMAIN records : Invocations(k) <= 1

(* C19: the stored regrade_count of a record never decreases, under any    *)
(* interleaving of regrade requests and invocations (an upload that writes *)
(* the document starts a new count).                                       *)
C19_RegradeCountMonotone ==
    [][\A k \in (DOMAIN records) \cap (DOMAIN records') :
         ~IsUploadOf(k) =>
            records'[k].regrade_count >= records[k].regrade_count]_vars

---------------------------------------------------------------------------
\* a plan name the handler has no reason to refuse
ValidName(name) ==
    /\ Strip(name) # <<>>
    /\ "/" \notin Range(name)
    /\ "\\" \notin Range(name)

(* C15: for every plan name that is non-empty and has no path separator,   *)
(* a create_plan that is accepted, followed by get_plan with the same      *)
(* name, returns the prompt and the description given to create_plan.      *)
C15_CreateThenGetPlan ==
    [][\A name \in PlanNameInputs, d \in Descriptions, q \in Prompts :
         (/\ create_plan(name, d, q)
          /\ ValidName(name)
          /\ ~exists(config, get_config_path(Strip(name)))) =>
            /\ get_plan(name)'.status_code = 200
            /\ get_plan(name)'.plan.prompt = q
            /\ get_plan(name)'.plan.description = d]_vars

(* C16: create_plan with a name that has a configuration already, with a   *)
(* name empty after trimming, or with a name holding '/' or '\' changes no *)
(* plan configuration and creates none; no create_plan ever replaces the   *)
(* description, prompt or creation time of a stored plan.                  *)
C16_CreatePlanRejected ==
    [][\A name \in PlanNameInputs, d \in Descriptions, q \in Prompts :
         create_plan(name, d, q) =>
           /\ (~ValidName(name) \/ exists(config, get_config_path(Strip(name))))
                 => config' = config
           /\ \A k \in DOMAIN config :
                 k \in DOMAIN config' /\ config'[k] = config[k]]_vars

\* a plan created earlier, whose name a later create_plan can give again
C16_Witness ==
    \E k \in DOMAIN config : config[k].created_at = 1 /\ now = 2

---------------------------------------------------------------------------
(* C17: when the configured OCR provider is not one of the three supported *)
(* names, startup fails: Config.init does not complete and the service     *)
(* does not run without an adapter.                                        *)
C17_UnknownProviderFailsStartup ==
    [][\A mkdir_ok \in BOOLEAN :
         (Config_init(mkdir_ok) /\ env.OCR_PROVIDER \notin SupportedProviders) =>
            env'.phase # "serving"]_vars

---------------------------------------------------------------------------
(* C11: when delete_record succeeds for a plan and record id, every image  *)
(* file of the record's image list and the record document are absent from *)
(* the store, and a get_record issued next answers 404.                    *)
C11_DeleteRemovesRecordAndImages ==
    [][\A p \in PlanNames, record_id \in RecordIds :
         (/\ delete_record(p, record_id)
          /\ exists(config, get_config_path(p))
          /\ exists(records, get_record_path(p, record_id))) =>
            LET images == records[get_record_path(p, record_id)].images
            IN  /\ ~exists(records', get_record_path(p, record_id))
                /\ \A i \in DOMAIN images :
                     ~exists(imageFiles', image_path(p, images[i]))
                /\ get_record(p, record_id)'.status_code = 404]_vars

\* the record stored at startup has been deleted, with its image
C11_Witness ==
    /\ ~exists(records, get_record_path(<<"p">>, 0))
    /\ ~exists(imageFiles, image_path(<<"p">>, image_rel(0, 1, ".jpg")))

---------------------------------------------------------------------------
\* the messages of the exceptions process_homework can raise
Messages ==
    {"FileNotFoundError", "ValueError", "OCR_NO_TEXT", "DEEPSEEK_API_KEY_MISSING",
     "REQUEST_EXCEPTION", "KeyError", "DEEPSEEK_API_FAILED"}

\* the invocation at the head of batch b finds no record document to load
LoadFails(b) ==
    /\ b \notin DOMAIN running
    /\ batches[b] # <<>>
    /\ ~exists(records, get_record_path(Head(batches[b])[1], Head(batches[b])[2]))

\* the stored record of the invocation that ends in slot b is failed with
\* the given message
StoredFailed(b, message) ==
    /\ exists(records', FramePath(b))
    /\ records'[FramePath(b)].status = "failed"
    /\ "error" \in DOMAIN records'[FramePath(b)]
    /\ records'[FramePath(b)].error = message

(* C13: process_homework never propagates an exception: an invocation      *)
(* that loaded its record ends by storing done or, for any failure,        *)
(* status failed with the message of the exception; an invocation that     *)
(* cannot load the record document writes no record document at all.       *)
C13_FailuresAreRecorded ==
    [][\A b \in Slots :
         /\ Ends(b) =>
              \/ /\ exists(records', FramePath(b))
                 /\ records'[FramePath(b)].status = "done"
                 /\ \E c \in GradeTexts : GradeCall(b, [status_code |-> 200, content |-> c])
              \/ \E message \in Messages : StoredFailed(b, message)
         /\ GradeCall(b, [raised |-> "RequestException"]) =>
              StoredFailed(b, "REQUEST_EXCEPTION")
         /\ GradeCall(b, [status_code |-> 500]) =>
              StoredFailed(b, "DEEPSEEK_API_FAILED")
         /\ (LoadConfig(b) /\ env.ocr_adapter # "ok") => StoredFailed(b, "ValueError")
         /\ (Begin(b) /\ LoadFails(b)) =>
              records' = records /\ b \notin DOMAIN running']_vars

\* a record failed with the message of a grading failure, and a queued
\* invocation whose record document has been deleted
C13_Witness ==
    /\ \E k \in DOMAIN records :
         /\ records[k].status = "failed"
         /\ Get(records[k], "error", "") = "DEEPSEEK_API_FAILED"
    /\ \E b \in Slots : LoadFails(b)

(* C20: a record document comes into existence only through upload: once   *)
(* delete_record has removed it, no invocation queued or running for the   *)
(* record id writes it back.                                               *)
C20_OnlyUploadCreatesRecords ==
    [][\A k \in (DOMAIN records') \ (DOMAIN records) : IsUploadOf(k)]_vars

---------------------------------------------------------------------------
\* every image of the frame's record gave a non-empty OCR text: there is
\* one section for each position of the image list, none of them the
\* placeholder of a failed call
EveryImageRecognized(f) ==
    /\ Len(f.recognized_texts) = Len(f.record.images)
    /\ \A i \in DOMAIN f.recognized_texts :
         /\ f.recognized_texts[i][1] = [label |-> i]
         /\ f.recognized_texts[i][2].text # RecognitionFailed

(* C12: when every image of a record yields non-empty OCR text and the     *)
(* grading call succeeds, the invocation stores status done, the model's   *)
(* output as result, and as ocr_text the sections of the images in the     *)
(* order of the image list, each labelled with the 1-based position of its *)
(* image and holding that image's text, with a blank line between them.    *)
C12_OcrTextInImageOrder ==
    [][\A b \in Slots :
         /\ \A answer \in PageAnswers :
              (/\ OcrImage(b, answer)
               /\ "text" \in DOMAIN answer
               /\ Strip(answer.text) # <<>>
               /\ exists(imageFiles, image_path(running[b].plan_name,
                                         running[b].record.images[running[b].idx]))
               /\ b \in DOMAIN running') =>
                 running'[b].recognized_texts =
                   Append(running[b].recognized_texts,
                          << [label |-> running[b].idx], [text |-> answer.text] >>)
         /\ \A c \in GradeTexts :
              (/\ GradeCall(b, [status_code |-> 200, content |-> c])
               /\ EveryImageRecognized(running[b])) =>
                 LET f == running[b]
                     n == Len(f.record.images)
                     r == records'[FramePath(b)]
                 IN  /\ r.status = "done"
                     /\ r.result = c
                     /\ Len(r.ocr_text) = 3 * n - 1
                     /\ \A i \in 1..n :
                          /\ r.ocr_text[3 * i - 2] = [label |-> i]
                          /\ r.ocr_text[3 * i - 1] = f.recognized_texts[i][2]
                          /\ i < n => r.ocr_text[3 * i] = [sep |-> "\n\n"]]_vars

\* a record of two images graded with both sections, in the image order
C12_Witness ==
    \E k \in DOMAIN records :
      /\ Len(records[k].images) = 2
      /\ records[k].status = "done"
      /\ records[k].result = "B"
      /\ records[k].ocr_text =
           << [label |-> 1], [text |-> <<"y">>], [sep |-> "\n\n"],
              [label |-> 2], [text |-> <<"x">>] >>

---------------------------------------------------------------------------
\* no request can start an invocation any more and none is queued or running
Quiescent ==
    /\ served = MaxRequests
    /\ \A b \in Slots : SlotFree(b)

\* every record that exists is done or failed
Settled == \A k \in DOMAIN records : records[k].status \in {"done", "failed"}

(* C21: every invocation that loads its record terminates, and its last    *)
(* write stores done or failed; once no further upload, regrade or delete  *)
(* is issued, every record that exists is eventually done or failed and    *)
(* stays so.                                                               *)
C21_EveryRecordSettles ==
    /\ \A b \in Slots : (b \in DOMAIN running) ~> (b \notin DOMAIN running)
    /\ [][\A b \in Slots :
            Ends(b) => /\ exists(records', FramePath(b))
                       /\ records'[FramePath(b)].status \in {"done", "failed"}]_vars
    /\ <>[]Settled

\* all requests served, nothing queued or running, and a record that was
\* regraded is done
C21_Witness ==
    /\ Quiescent
    /\ Settled
    /\ \E k \in DOMAIN records :
         records[k].regrade_count > 0 /\ records[k].status = "done"

---------------------------------------------------------------------------
\* the invocation in slot b is the only one queued or running for its record
Sole(b) == Invocations(FramePath(b)) = 1

(* C22: an invocation stores status processing before it loads the prompt, *)
(* before its first OCR call and before the grading call; while a sole     *)
(* invocation for a record is at any of these steps the stored status of   *)
(* the record, as long as it exists, is processing: no step taken while    *)
(* the invocation runs and is the only one for the record changes it.      *)
C22_ProcessingWhileRunning ==
    [][\A b \in Slots :
         /\ (Begin(b) /\ ~LoadFails(b)) =>
              /\ running'[b].pc = "config"
              /\ records'[FramePath(b)'].status = "processing"
         /\ (/\ b \in DOMAIN running
             /\ b \in DOMAIN running'
             /\ Sole(b)
             /\ Sole(b)'
             /\ exists(records, FramePath(b))
             /\ records[FramePath(b)].status = "processing"
             /\ exists(records', FramePath(b))) =>
               records'[FramePath(b)].status = "processing"]_vars

\* a sole invocation waits for the grading model and the stored status of
\* its record is processing
C22_Witness ==
    \E b \in DOMAIN running :
      /\ running[b].pc = "grade"
      /\ Sole(b)
      /\ exists(records, FramePath(b))
      /\ records[FramePath(b)].status = "processing"

(* C23: the write that marks a record failed changes only status, error    *)
(* and updated_at of the document stored at the moment of the write: every *)
(* other field keeps its stored value, also a value a regrade wrote while  *)
(* the invocation was running.                                             *)
C23_FailedWriteFrame ==
    [][\A b \in Slots :
         (/\ Ends(b)
          /\ exists(records, FramePath(b))
          /\ \E message \in Messages : StoredFailed(b, message)) =>
            LET old == records[FramePath(b)]
                new == records'[FramePath(b)]
                kept == {"id", "student", "images", "ocr_text", "result",
                         "previous_result", "regrade_count", "created_at"}
            IN  \A field \in kept :
                  /\ (field \in DOMAIN new) <=> (field \in DOMAIN old)
                  /\ field \in DOMAIN old => new[field] = old[field]]_vars

---------------------------------------------------------------------------
\* the image the loop of slot b is at is stored
ImageStored(b) ==
    exists(imageFiles, image_path(running[b].plan_name,
                                  running[b].record.images[running[b].idx]))

\* the OCR call of this pass raises
PassFails(b, answer) == "raised" \in DOMAIN answer /\ ImageStored(b)

\* the OCR call of this pass gives usable text
PassReads(b, answer) ==
    /\ "text" \in DOMAIN answer
    /\ Strip(answer.text) # <<>>
    /\ ImageStored(b)

\* this pass is the last of the loop
LastPass(b) == running[b].idx = Len(running[b].record.images)

\* some image of the frame gave usable text, some OCR call of it raised
HasText(f) ==
    \E i \in DOMAIN f.recognized_texts :
      f.recognized_texts[i][2].text # RecognitionFailed

HasPlaceholder(f) ==
    \E i \in DOMAIN f.recognized_texts :
      f.recognized_texts[i][2].text = RecognitionFailed

(* C25: when the grading credential is unset, every invocation that        *)
(* obtains usable OCR text ends with the record failed, the error naming   *)
(* the missing credential, and sends no request to the grading model.      *)
C25_MissingCredentialFails ==
    [][\A b \in Slots :
         env.DEEPSEEK_API_KEY = "" =>
           /\ \A answer \in PageAnswers :
                (/\ OcrImage(b, answer)
                 /\ LastPass(b)
                 /\ HasText(running[b]) \/ PassReads(b, answer)) =>
                   /\ Ends(b)
                   /\ StoredFailed(b, "DEEPSEEK_API_KEY_MISSING")
           /\ b \in DOMAIN running' => running'[b].pc # "grade"
           /\ \A answer \in GradeAnswers : ~GradeCall(b, answer)]_vars

\* without the credential, an invocation for a two-image record has ended
\* after its loop with the record failed for the missing credential
C25_Witness ==
    /\ env.DEEPSEEK_API_KEY = ""
    /\ \E k \in DOMAIN records :
         /\ Len(records[k].images) = 2
         /\ records[k].status = "failed"
         /\ Get(records[k], "error", "") = "DEEPSEEK_API_KEY_MISSING"

---------------------------------------------------------------------------
\* doc is the sections of texts, in their order, with a blank line between
SectionsInOrder(doc, texts) ==
    /\ Len(doc) = 3 * Len(texts) - 1
    /\ \A i \in DOMAIN texts :
         /\ doc[3 * i - 2] = texts[i][1]
         /\ doc[3 * i - 1] = texts[i][2]
         /\ i < Len(texts) => doc[3 * i] = [sep |-> "\n\n"]
    /\ \A i, j \in DOMAIN texts : i < j => texts[i][1].label < texts[j][1].label

\* a pass whose OCR call raises adds the placeholder under the position of
\* its image and, when images are left, the loop goes on to the next one
FailedPassGoesOn(b) ==
    \A answer \in PageAnswers :
      (OcrImage(b, answer) /\ PassFails(b, answer) /\ ~LastPass(b)) =>
         /\ b \in DOMAIN running'
         /\ running'[b].pc = "ocr"
         /\ running'[b].idx = running[b].idx + 1
         /\ running'[b].recognized_texts =
              Append(running[b].recognized_texts,
                     << [label |-> running[b].idx], [text |-> RecognitionFailed] >>)

\* the last pass of a loop that met a failure and a usable text
MixedLoopEnds(b, answer) ==
    /\ OcrImage(b, answer)
    /\ LastPass(b)
    /\ HasText(running[b]) \/ PassReads(b, answer)
    /\ HasPlaceholder(running[b]) \/ PassFails(b, answer)

\* the invocation is at the grading call with every section in image order
AtGradingCall(b, answer) ==
    /\ b \in DOMAIN running'
    /\ running'[b].pc = "grade"
    /\ Len(running'[b].recognized_texts) =
         Len(running[b].recognized_texts)
           + (IF PassFails(b, answer) \/ PassReads(b, answer) THEN 1 ELSE 0)
    /\ SectionsInOrder(running'[b].all_text, running'[b].recognized_texts)

(* C24, as stated: an OCR failure on one image does not abort the          *)
(* invocation: the loop goes on to every later image, the failed image     *)
(* contributes a placeholder section labelled with its own 1-based         *)
(* position, and when at least one other image yields text the invocation  *)
(* proceeds to the grading call with all sections in image order.          *)
C24_OcrFailureTolerated ==
    [][\A b \in Slots :
         /\ FailedPassGoesOn(b)
         /\ \A answer \in PageAnswers :
              MixedLoopEnds(b, answer) => AtGradingCall(b, answer)]_vars

(* C24, amended: as above, and the invocation proceeds to the grading call *)
(* when the grading credential is set; when it is unset the invocation     *)
(* ends with the record failed for the missing credential.                 *)
C24_OcrFailureToleratedWithCredential ==
    [][\A b \in Slots :
         /\ FailedPassGoesOn(b)
         /\ \A answer \in PageAnswers :
              MixedLoopEnds(b, answer) =>
                IF env.DEEPSEEK_API_KEY # ""
                  THEN AtGradingCall(b, answer)
                  ELSE Ends(b) /\ StoredFailed(b, "DEEPSEEK_API_KEY_MISSING")]_vars

\* an invocation for a two-image record is at the grading call with the
\* placeholder of image 1 and the text of image 2
C24_Witness ==
    \E b \in DOMAIN running :
      /\ running[b].pc = "grade"
      /\ running[b].all_text =
           << [label |-> 1], [text |-> RecognitionFailed], [sep |-> "\n\n"],
              [label |-> 2], [text |-> <<"y">>] >>

---------------------------------------------------------------------------
\* the existing records of the file's plan whose image list holds the file
Referencing(path) ==
    { k \in DOMAIN records :
        /\ k[1] = path[1]
        /\ \E i \in DOMAIN records[k].images : records[k].images[i] = path[2] }

(* C26: after any upload, accepted or rejected, and after any delete_record *)
(* has completed, every stored image file is referenced by the image list   *)
(* of exactly one existing record of its plan: there are no orphan images.  *)
C26_NoOrphanImages ==
    \A path \in DOMAIN imageFiles : Cardinality(Referencing(path)) = 1

====
